---- MODULE Spec2Model ----
(***************************************************************************)
(* einstellung: interactive, line-granular synchronisation of             *)
(* configuration files (src/src/main.rs).                                  *)
(*                                                                         *)
(* A text is a sequence of line tokens; a token stands for one line with   *)
(* its terminator, so String::push_str is sequence concatenation.          *)
(* Option<T> is a sequence of length 0 (None) or 1 (Some).                 *)
(* The program is sequential; pc is its position:                          *)
(*   start      before read_configuration                                  *)
(*   entry      head of the loop over the configuration                    *)
(*   other      head of the loop over other_files                          *)
(*   compare    other file loaded, status line written                     *)
(*   pass       head of the second loop of compare_files                   *)
(*   accept     blocked in read_accept_input's read_char                   *)
(*   save       blocked in read_save_question's read_char                  *)
(*   write_back about to call fs::write                                    *)
(*   done / error   main returned Ok / Err                                 *)
(* Terminal writes and read_char are taken to succeed.                     *)
(***************************************************************************)
EXTENDS Integers, Sequences, FiniteSets, TLC

\* ------------------------------------------------------------- bounds
\* Number of lines on disk at start, and number of lines the comparisons
\* the manifest names read in from the disk the run starts with.
MaxTotal == 4

Lines == {"a", "b"}

\* Characters the terminal may deliver.
Keys == {"a", "s", "d", "f", "A", "S", "D", "F", "x", "X"}

\* Paths that name files; "$u" is a manifest token whose expansion fails,
\* "~x" one that expands to another path.
Files == {"o", "x"}

None == <<>>
Some(v) == <<v>>

\* ------------------------------------------------------------ helpers
KeepCase(c) == c

\* char::to_ascii_lowercase
ToAsciiLowercase(c) ==
    CASE c = "A" -> "a"
      [] c = "S" -> "s"
      [] c = "D" -> "d"
      [] c = "F" -> "f"
      [] c = "X" -> "x"
      [] OTHER -> c

\* shellexpand::full: Some(expanded path) or None on a lookup error
ShellExpand(p) ==
    CASE p = "$u" -> None
      [] p = "~x" -> Some("x")
      [] OTHER -> Some(p)

\* fs::read_to_string(..).unwrap_or_default(): a missing file reads as empty.
ReadOrEmpty(disk, p) ==
    IF p \in DOMAIN disk /\ disk[p] # None THEN disk[p] ELSE Some(<<>>)

\* fs::read_to_string(..).ok()
ReadToString(disk, p) == IF p \in DOMAIN disk THEN disk[p] ELSE None

Seg(t, v) == [tag |-> t, value |-> v]

\* All edit scripts covering both texts: Equal+Delete values give a,
\* Equal+Insert values give b.
RECURSIVE Scripts(_, _)
Scripts(a, b) ==
    IF a = <<>> /\ b = <<>> THEN {<<>>}
    ELSE (IF a # <<>> /\ b # <<>> /\ Head(a) = Head(b)
            THEN {<<Seg("Equal", Head(a))>> \o s : s \in Scripts(Tail(a), Tail(b))}
            ELSE {})
         \cup (IF a # <<>>
                 THEN {<<Seg("Delete", Head(a))>> \o s : s \in Scripts(Tail(a), b)}
                 ELSE {})
         \cup (IF b # <<>>
                 THEN {<<Seg("Insert", Head(b))>> \o s : s \in Scripts(a, Tail(b))}
                 ELSE {})

\* TextDiff::from_lines(..).iter_all_changes(): a shortest edit script
\* (Myers); which one of them is left open.
FromLines(a, b) ==
    LET all == Scripts(a, b)
    IN  {s \in all : \A t \in all : Len(s) <= Len(t)}

AllEqualNonEmpty(d) == d # <<>> /\ \A i \in 1..Len(d) : d[i].tag = "Equal"

\* diff.iter_all_changes().all(|change| change.tag() == ChangeTag::Equal)
AllEqual(d) == \A i \in 1..Len(d) : d[i].tag = "Equal"

TagPrefix(tag) ==
    CASE tag = "Equal" -> " "
      [] tag = "Insert" -> "+"
      [] tag = "Delete" -> "-"

TagStyle(tag) ==
    CASE tag = "Equal" -> "plain"
      [] tag = "Insert" -> "green"
      [] tag = "Delete" -> "red"

\* One rendered change: prefix, colour, look ("", "bold" or "dim"), text.
\* The text is shown with its line terminator trimmed, which a line
\* token does not carry.
SegRow(seg, look) == <<TagPrefix(seg.tag), TagStyle(seg.tag), look, seg.value>>

\* A status line: what is reported and the path it is reported for.
StatusRow(what, path) == <<what, path>>

AcceptHint == <<"> A: keep | S: remove | D: keep block | F: remove block", "">>

SaveHint == <<"> S: save | D: discard", "">>

\* The preview loop: one row per change, in order, in the tag's style.
Preview(d) == [i \in 1..Len(d) |-> SegRow(d[i], "")]

\* ------------------------------------------------------------- state
VARIABLES
    mode,               \* argv[1]: "read" or "write"
    config,             \* Option of the parsed manifest
    fs,                 \* path -> Option<text>
    pc,
    ei,                 \* index of the current configuration entry
    oi,                 \* index of the current other file
    original_content,
    other_file,         \* expanded path of the current other file
    other_content,
    diff,               \* the change sequence of the running compare_files
    idx,                \* index of the change the second loop is at
    resulting_content,
    changed,
    automatic,          \* Option<(tag, accept)>
    content,            \* Option<String> returned by compare_files
    dropped,            \* the pending prompt has read a char and gone round its loop
    status,             \* Option of the last status or hint line written
    row,                \* cursor row of the terminal
    top,                \* row the first change of this session was previewed on
    shown,              \* what the rows from top on show, one row per change
    decisions,          \* history: how each change of this session was resolved:
                        \* "equal", by a "key" (a/s), by a "block" key (d/f) or
                        \* "auto" (no key read), and whether it was kept
    err,                \* Option of the error main returns
    saved               \* history: the contents the sessions of the current
                        \* entry have written back, in order

vars == <<mode, config, fs, pc, ei, oi, original_content, other_file,
          other_content, diff, idx, resulting_content, changed, automatic,
          content, dropped, status, row, top, shown, decisions, err, saved>>

session == <<diff, idx, resulting_content, changed, automatic, decisions, top, shown>>

Entry(orig, others) == [original_file |-> orig, other_files |-> others]

\* The manifests the runs start from.
Manifests ==
    { <<>>,
      <<Entry("o", <<"x">>)>>,
      <<Entry("o", <<"x", "x">>)>>,
      <<Entry("o", <<"$u", "~x">>)>>,
      <<Entry("o", <<"o", "x">>)>>,
      <<Entry("o", <<"x">>), Entry("x", <<"o">>)>> }

RECURSIVE TextsOfLen(_)
TextsOfLen(n) ==
    IF n = 0 THEN {<<>>}
    ELSE {<<l>> \o t : l \in Lines, t \in TextsOfLen(n - 1)}

Texts == UNION {TextsOfLen(n) : n \in 0..MaxTotal}

Size(f) == IF f = None THEN 0 ELSE Len(f[1])

\* Lines one entry's comparisons read: the original and the other file,
\* once per other path that expands.
RECURSIVE EntryWork(_, _, _)
EntryWork(d, orig, others) ==
    IF others = <<>> THEN 0
    ELSE (IF ShellExpand(Head(others)) = None THEN 0
          ELSE Size(ReadToString(d, orig))
               + Size(ReadToString(d, ShellExpand(Head(others))[1])))
         + EntryWork(d, orig, Tail(others))

RECURSIVE Work(_, _)
Work(d, m) ==
    IF m = <<>> THEN 0
    ELSE EntryWork(d, Head(m).original_file, Head(m).other_files) + Work(d, Tail(m))

Disks ==
    {d \in [Files -> {None} \cup {Some(t) : t \in Texts}] :
        Size(d["o"]) + Size(d["x"]) <= MaxTotal}

Init ==
    /\ mode \in {"read", "write"}
    /\ config \in {None} \cup {Some(m) : m \in Manifests}
    /\ fs \in {d \in Disks : config # None => Work(d, config[1]) <= MaxTotal}
    /\ pc = "start"
    /\ ei = 0
    /\ oi = 0
    /\ original_content = <<>>
    /\ other_file = ""
    /\ other_content = <<>>
    /\ diff = <<>>
    /\ idx = 0
    /\ resulting_content = <<>>
    /\ changed = FALSE
    /\ automatic = None
    /\ content = None
    /\ dropped = FALSE
    /\ status = None
    /\ row = 1
    /\ top = 0
    /\ shown = <<>>
    /\ decisions = <<>>
    /\ err = None
    /\ saved = <<>>

\* ------------------------------------------------------------ actions
\* writeln!(term, ..) of a status or hint line
Writeln(line) ==
    /\ status' = Some(line)
    /\ row' = row + 1

\* write!(term, ..) after clear_line: the row under the cursor shows line.
PutRow(rows, r, line) ==
    [i \in 1..Len(rows) |-> IF i = r THEN line ELSE rows[i]]

Fail(kind, path) ==
    /\ err' = Some(<<kind, path>>)
    /\ pc' = "error"

\* A block decision left in the slot by an earlier session stays in force.
KeepAutomatic(old) == old

\* let mut automatic = None: the slot of a session is fresh, whatever an
\* earlier session held in its own.
NewAutomatic(old) == None

\* The locals of compare_files go out of scope.
DropSession ==
    /\ diff' = <<>>
    /\ idx' = 0
    /\ resulting_content' = <<>>
    /\ changed' = FALSE
    /\ automatic' = NewAutomatic(automatic)
    /\ decisions' = <<>>
    /\ top' = 0
    /\ shown' = <<>>

\* The loop over other_files moves on to the next path.
NextOther ==
    /\ oi' = oi + 1
    /\ other_file' = ""
    /\ other_content' = <<>>
    /\ content' = None
    /\ pc' = "other"

Current == config[1][ei]

\* read_configuration()?
ReadConfiguration ==
    /\ pc = "start"
    /\ IF config = None
         THEN /\ Fail("ConfigurationMissing", "")
              /\ UNCHANGED ei
         ELSE /\ ei' = 1
              /\ pc' = "entry"
              /\ UNCHANGED err
    /\ UNCHANGED <<dropped, saved, mode, config, fs, oi, original_content, other_file,
                   other_content, content, status, row>>
    /\ UNCHANGED session

\* The loop head with a missing original treated like a missing other
\* file: reported, and the loop goes on with the next entry.
BeginEntrySkipsMissing ==
    /\ pc = "entry"
    /\ ei <= Len(config[1])
    /\ Writeln(StatusRow(IF mode = "read" THEN "Read for" ELSE "Write for",
                         Current.original_file))
    /\ LET read == ReadToString(fs, Current.original_file)
       IN  IF read = None
             THEN /\ ei' = ei + 1
                  /\ UNCHANGED <<original_content, oi, pc>>
             ELSE /\ original_content' = read[1]
                  /\ oi' = 1
                  /\ pc' = "other"
                  /\ UNCHANGED ei
    /\ UNCHANGED <<dropped, saved, mode, config, fs, other_file, other_content, content, err>>
    /\ UNCHANGED session

\* Head of the loop over the configuration: status line, then the
\* original file is read once.
BeginEntry ==
    /\ pc = "entry"
    /\ ei <= Len(config[1])
    /\ Writeln(StatusRow(IF mode = "read" THEN "Read for" ELSE "Write for",
                         Current.original_file))
    /\ LET read == ReadToString(fs, Current.original_file)
       IN  IF read = None
             THEN /\ Fail("SyncFileMissing", Current.original_file)
                  /\ UNCHANGED <<original_content, oi>>
             ELSE /\ original_content' = read[1]
                  /\ oi' = 1
                  /\ pc' = "other"
                  /\ UNCHANGED err
    /\ UNCHANGED <<dropped, saved, mode, config, fs, ei, other_file, other_content, content>>
    /\ UNCHANGED session

\* The configuration is exhausted: write "\r", return Ok(()).
Finish ==
    /\ pc = "entry"
    /\ ei > Len(config[1])
    /\ pc' = "done"
    /\ UNCHANGED <<dropped, saved, mode, config, fs, ei, oi, original_content, other_file,
                   other_content, content, status, row, err>>
    /\ UNCHANGED session

\* other_files is exhausted: next configuration entry.
EndEntry ==
    /\ pc = "other"
    /\ oi > Len(Current.other_files)
    /\ ei' = ei + 1
    /\ oi' = 0
    /\ original_content' = <<>>
    /\ saved' = <<>>
    /\ pc' = "entry"
    /\ UNCHANGED <<dropped, mode, config, fs, other_file, other_content, content, status,
                   row, err>>
    /\ UNCHANGED session

\* shellexpand::full fails: report and continue.
InvalidFileName ==
    /\ pc = "other"
    /\ oi <= Len(Current.other_files)
    /\ ShellExpand(Current.other_files[oi]) = None
    /\ Writeln(StatusRow("Invalid file name", Current.other_files[oi]))
    /\ NextOther
    /\ UNCHANGED <<dropped, saved, mode, config, fs, ei, original_content, err>>
    /\ UNCHANGED session

\* fs::read_to_string of the other file fails: report and continue.
NotFound ==
    /\ pc = "other"
    /\ oi <= Len(Current.other_files)
    /\ ShellExpand(Current.other_files[oi]) # None
    /\ LET path == ShellExpand(Current.other_files[oi])[1]
       IN  /\ ReadToString(fs, path) = None
           /\ Writeln(StatusRow("Not found", path))
    /\ NextOther
    /\ UNCHANGED <<dropped, saved, mode, config, fs, ei, original_content, err>>
    /\ UNCHANGED session

\* The other file is read and the "Compare with/to" line written.
LoadOther ==
    /\ pc = "other"
    /\ oi <= Len(Current.other_files)
    /\ ShellExpand(Current.other_files[oi]) # None
    /\ LET path == ShellExpand(Current.other_files[oi])[1]
       IN  /\ ReadToString(fs, path) # None
           /\ other_file' = path
           /\ other_content' = ReadToString(fs, path)[1]
           /\ Writeln(StatusRow(IF mode = "read" THEN "Compare with" ELSE "Compare to",
                                path))
    /\ pc' = "compare"
    /\ UNCHANGED <<dropped, saved, mode, config, fs, ei, oi, original_content, content, err>>
    /\ UNCHANGED session

\* move_cursor_up by one row less than asked
MoveCursorUpShort(r, n) == r - n + 1

\* Term::move_cursor_up / move_cursor_down
MoveCursorUp(r, n) == r - n

MoveCursorDown(r, n) == r + n

\* compare_files up to its second loop (read mode): the diff, the early
\* return when nothing differs, else hint, preview and cursor back up.
CompareFiles ==
    /\ pc = "compare"
    /\ mode = "read"
    /\ \E d \in FromLines(original_content, other_content) :
          IF AllEqual(d)
            THEN /\ NextOther
                 /\ UNCHANGED <<status, row>>
                 /\ UNCHANGED session
            ELSE /\ diff' = d
                 /\ status' = Some(AcceptHint)
                 /\ shown' = Preview(d)
                 /\ row' = MoveCursorUp(row + 1 + Len(d), Len(d))
                 /\ top' = row + 1
                 /\ idx' = 1
                 /\ resulting_content' = <<>>
                 /\ changed' = FALSE
                 /\ automatic' = NewAutomatic(automatic)
                 /\ decisions' = <<>>
                 /\ pc' = "pass"
                 /\ UNCHANGED <<oi, other_file, other_content, content>>
    /\ UNCHANGED <<dropped, saved, mode, config, fs, ei, original_content, err>>

\* write(): identical content is skipped, else the save question is put.
CompareWrite ==
    /\ pc = "compare"
    /\ mode = "write"
    /\ IF original_content = other_content
         THEN /\ NextOther
              /\ UNCHANGED <<status, row>>
         ELSE /\ Writeln(SaveHint)
              /\ pc' = "save"
              /\ UNCHANGED <<oi, other_file, other_content, content>>
    /\ UNCHANGED <<dropped, saved, mode, config, fs, ei, original_content, err>>
    /\ UNCHANGED session

PushStrAlways(buf, seg, accept) == buf \o <<seg.value>>

PushStrFront(buf, seg, accept) == IF accept THEN <<seg.value>> \o buf ELSE buf

\* push_str only for a kept line that is not a Delete
PushStrNoDelete(buf, seg, accept) ==
    IF accept /\ seg.tag # "Delete" THEN buf \o <<seg.value>> ELSE buf

\* resulting_content.push_str(change.value()) when the change is kept
PushStr(buf, seg, accept) == IF accept THEN buf \o <<seg.value>> ELSE buf

ChangedOnAccept(flag, tag, accept) == flag \/ accept

\* changed |= accept && matches!(change.tag(), ChangeTag::Insert)
ChangedOnInsert(flag, tag, accept) == flag \/ (accept /\ tag = "Insert")

\* changed |= accept == matches!(change.tag(), ChangeTag::Insert)
Changed(flag, tag, accept) == flag \/ (accept = (tag = "Insert"))

\* if let Some((tag, accept)) = automatic && tag == change.tag()
AutomaticApplies(auto, tag) == auto # None /\ auto[1][1] = tag

SetAutomaticNever(auto_accept, tag) == None

\* automatic = auto_accept.map(|accept| (change.tag(), accept))
SetAutomatic(auto_accept, tag) ==
    IF auto_accept = None THEN None ELSE Some(<<tag, auto_accept[1]>>)

\* read_accept_input's match on the lowercased char:
\* Some((accept, auto_accept)), or None for `continue`
AcceptInput(c) ==
    CASE c = "a" -> Some(<<TRUE, None>>)
      [] c = "s" -> Some(<<FALSE, None>>)
      [] c = "d" -> Some(<<TRUE, Some(TRUE)>>)
      [] c = "f" -> Some(<<FALSE, Some(FALSE)>>)
      [] OTHER -> None

SaveAnswerDefaultSave(c) == IF c = "d" THEN Some(FALSE) ELSE Some(TRUE)

\* read_save_question's match on the lowercased char
SaveAnswer(c) ==
    CASE c = "s" -> Some(TRUE)
      [] c = "d" -> Some(FALSE)
      [] OTHER -> None

\* The row of the session's display the cursor is on.
CursorLine == row - top + 1

\* The tail of the loop body without the iterator moving on.
FinalizeStays(seg, accept, how) ==
    /\ resulting_content' = PushStr(resulting_content, seg, accept)
    /\ shown' = PutRow(shown, CursorLine, SegRow(seg, IF accept THEN "" ELSE "dim"))
    /\ changed' = Changed(changed, seg.tag, accept)
    /\ row' = row
    /\ idx' = idx
    /\ decisions' = decisions
    /\ pc' = "pass"

\* The tail of the loop body once the decision is known: push, final
\* rendering, changed flag, cursor down.
Finalize(seg, accept, how) ==
    /\ resulting_content' = PushStr(resulting_content, seg, accept)
    /\ shown' = PutRow(shown, CursorLine, SegRow(seg, IF accept THEN "" ELSE "dim"))
    /\ changed' = Changed(changed, seg.tag, accept)
    /\ row' = MoveCursorDown(row, 1)
    /\ idx' = idx + 1
    /\ decisions' = Append(decisions, [how |-> how, accept |-> accept])
    /\ pc' = "pass"

\* An Equal change: pushed, cursor down, continue.
EqualChange ==
    /\ pc = "pass"
    /\ idx <= Len(diff)
    /\ diff[idx].tag = "Equal"
    /\ resulting_content' = PushStr(resulting_content, diff[idx], TRUE)
    /\ row' = MoveCursorDown(row, 1)
    /\ idx' = idx + 1
    /\ decisions' = Append(decisions, [how |-> "equal", accept |-> TRUE])
    /\ UNCHANGED <<dropped, saved, mode, config, fs, pc, ei, oi, original_content, other_file,
                   other_content, diff, changed, automatic, content, status,
                   top, shown, err>>

\* A changed line the remembered block decision covers: no key is read.
AutomaticChange ==
    /\ pc = "pass"
    /\ idx <= Len(diff)
    /\ diff[idx].tag # "Equal"
    /\ AutomaticApplies(automatic, diff[idx].tag)
    /\ Finalize(diff[idx], automatic[1][2], "auto")
    /\ UNCHANGED <<dropped, saved, mode, config, fs, ei, oi, original_content, other_file,
                   other_content, diff, automatic, content, status, top, err>>

\* A changed line that needs a decision: redrawn bold, then the program
\* blocks in read_accept_input.
Prompt ==
    /\ pc = "pass"
    /\ idx <= Len(diff)
    /\ diff[idx].tag # "Equal"
    /\ ~AutomaticApplies(automatic, diff[idx].tag)
    /\ shown' = PutRow(shown, CursorLine, SegRow(diff[idx], "bold"))
    /\ pc' = "accept"
    /\ UNCHANGED <<dropped, saved, mode, config, fs, ei, oi, original_content, other_file,
                   other_content, content, status, row, err>>
    /\ UNCHANGED <<diff, idx, resulting_content, changed, automatic, decisions, top>>

\* One read_char of read_accept_input returning c: an unrecognized char
\* goes round the loop, a recognized one returns and the rest of the loop
\* body runs.
ReadAcceptKey(c) ==
    /\ pc = "accept"
    /\ LET res == AcceptInput(ToAsciiLowercase(c))
       IN  IF res = None
             THEN /\ dropped' = TRUE
                  /\ UNCHANGED <<pc, row, diff, idx, resulting_content, changed,
                                 automatic, decisions, shown>>
             ELSE /\ dropped' = FALSE
                  /\ automatic' = SetAutomatic(res[1][2], diff[idx].tag)
                  /\ Finalize(diff[idx], res[1][1],
                              IF res[1][2] = None THEN "key" ELSE "block")
                  /\ UNCHANGED diff
    /\ UNCHANGED <<saved, mode, config, fs, ei, oi, original_content, other_file,
                   other_content, content, status, top, err>>

ReadAcceptInput == \E c \in Keys : ReadAcceptKey(c)

\* End of the second loop: changed && read_save_question(term)?
EndPass ==
    /\ pc = "pass"
    /\ idx > Len(diff)
    /\ IF changed
         THEN /\ Writeln(SaveHint)
              /\ pc' = "save"
              /\ UNCHANGED <<oi, other_file, other_content, content>>
              /\ UNCHANGED session
         ELSE /\ NextOther
              /\ DropSession
              /\ UNCHANGED <<status, row>>
    /\ UNCHANGED <<dropped, saved, mode, config, fs, ei, original_content, err>>

\* One read_char of read_save_question returning c: an unrecognized char
\* goes round the loop, s returns true (the caller goes on to fs::write),
\* d returns false.
ReadSaveKey(c) ==
    /\ pc = "save"
    /\ LET res == SaveAnswer(ToAsciiLowercase(c))
       IN  CASE res = None ->
                  /\ dropped' = TRUE
                  /\ UNCHANGED <<pc, oi, other_file, other_content, content>>
                  /\ UNCHANGED session
             [] res = Some(TRUE) ->
                  /\ dropped' = FALSE
                  /\ content' = IF mode = "read" THEN Some(resulting_content)
                                                 ELSE None
                  /\ pc' = "write_back"
                  /\ UNCHANGED <<oi, other_file, other_content>>
                  /\ UNCHANGED session
             [] res = Some(FALSE) ->
                  /\ dropped' = FALSE
                  /\ NextOther
                  /\ DropSession
    /\ UNCHANGED <<saved, mode, config, fs, ei, original_content, status, row, err>>

ReadSaveQuestion == \E c \in Keys : ReadSaveKey(c)

WriteTargetOther == other_file

WriteTargetOriginal == Current.original_file

\* Path and data of the fs::write: the original file gets the merge
\* result in read mode, the other file the original content in write mode.
WriteTarget == IF mode = "read" THEN Current.original_file ELSE other_file

\* The data of a write that appends to the file instead of replacing it.
WriteDataAppended ==
    IF mode = "read"
      THEN (IF fs[Current.original_file] = None
              THEN <<>> ELSE fs[Current.original_file][1]) \o content[1]
      ELSE original_content

WriteData == IF mode = "read" THEN content[1] ELSE original_content

\* The path the error of a failed fs::write carries.
WriteErrorPath == Current.original_file

WriteErrorKind ==
    IF mode = "read" THEN "FailedToSaveSyncFile" ELSE "FailedToSaveConfigurationFile"

\* What a failed fs::write may leave: the old file, or a truncated file
\* holding a proper prefix of the data.
FailedWrites(old, data) ==
    {old} \cup {Some(SubSeq(data, 1, k)) : k \in 0..(Len(data) - 1)}

\* fs::write succeeds and the in-memory original is refreshed from what
\* was written.
WriteBackReloads ==
    /\ pc = "write_back"
    /\ fs' = [fs EXCEPT ![WriteTarget] = Some(WriteData)]
    /\ original_content' = IF mode = "read" THEN WriteData ELSE original_content
    /\ saved' = IF mode = "read" THEN Append(saved, resulting_content) ELSE saved
    /\ NextOther
    /\ DropSession
    /\ UNCHANGED <<dropped, mode, config, ei, status, row, err>>

\* fs::write(..) succeeds.
WriteBack ==
    /\ pc = "write_back"
    /\ fs' = [fs EXCEPT ![WriteTarget] = Some(WriteData)]
    /\ saved' = IF mode = "read" THEN Append(saved, resulting_content) ELSE saved
    /\ NextOther
    /\ DropSession
    /\ UNCHANGED <<dropped, mode, config, ei, original_content, status, row, err>>

\* fs::write(..) fails: the error is returned from main and the locals of
\* the session are gone.
WriteFails ==
    /\ pc = "write_back"
    /\ \E left \in FailedWrites(fs[WriteTarget], WriteData) :
          fs' = [fs EXCEPT ![WriteTarget] = left]
    /\ Fail(WriteErrorKind, WriteErrorPath)
    /\ DropSession
    /\ content' = None
    /\ UNCHANGED <<dropped, saved, mode, config, ei, oi, original_content, other_file,
                   other_content, status, row>>

Next ==
    \/ ReadConfiguration
    \/ BeginEntry
    \/ Finish
    \/ EndEntry
    \/ InvalidFileName
    \/ NotFound
    \/ LoadOther
    \/ CompareFiles
    \/ CompareWrite
    \/ EqualChange
    \/ AutomaticChange
    \/ Prompt
    \/ ReadAcceptInput
    \/ EndPass
    \/ ReadSaveQuestion
    \/ WriteBack
    \/ WriteFails

Spec == Init /\ [][Next]_vars

\* A step of the program that does not wait for the terminal.
Program == Next /\ pc \notin {"accept", "save"}

\* read_char returns a key the prompt recognizes and the prompt returns.
RecognizedKey == Next /\ pc \in {"accept", "save"} /\ pc' # pc

\* The program runs on while it can, and every prompt eventually gets a
\* recognized key.
FairSpec == Spec /\ WF_vars(Program) /\ WF_vars(RecognizedKey)

\* ------------------------------------------------------------- claims
\* The second loop of a merge session has run over every change.
PassOver == mode = "read" /\ diff # <<>> /\ idx > Len(diff)

Resolved == 1..Len(decisions)

\* The values of the changes d[i] with keep[i], in order.
RECURSIVE Selected(_, _)
Selected(d, keep) ==
    IF d = <<>> THEN <<>>
    ELSE (IF Head(keep) THEN <<Head(d).value>> ELSE <<>>)
         \o Selected(Tail(d), Tail(keep))

KeepEqualAndAcceptedInsert ==
    [i \in 1..Len(diff) |->
        diff[i].tag = "Equal" \/ (diff[i].tag = "Insert" /\ decisions[i].accept)]

KeepEqualAndAccepted ==
    [i \in 1..Len(diff) |-> diff[i].tag = "Equal" \/ decisions[i].accept]

Accepted(tag) == \E i \in Resolved : diff[i].tag = tag /\ decisions[i].accept

Rejected(tag) == \E i \in Resolved : diff[i].tag = tag /\ ~decisions[i].accept

\* C1 as stated: at the end of the interactive pass the ResultBuffer is
\* the text of the Equal changes and of the accepted Insert changes only;
\* the text of a Delete change is never in it.
C1_DeleteNeverKept ==
    PassOver => resulting_content = Selected(diff, KeepEqualAndAcceptedInsert)

\* C1 amended: at the end of the interactive pass the ResultBuffer is, in
\* order, the text of every Equal change and of every Insert or Delete
\* change that was resolved Accept; a rejected change is never in it.
C1_AcceptedKept ==
    PassOver => resulting_content = Selected(diff, KeepEqualAndAccepted)

C1_Witness ==
    /\ PassOver
    /\ \E i \in Resolved : diff[i].tag = "Equal"
    /\ Accepted("Delete")
    /\ Accepted("Insert")
    /\ Len(resulting_content) = 3

\* The save question of a merge session is showing, or the session has
\* returned content.
SaveGateOrContent == mode = "read" /\ (pc = "save" \/ content # None)

\* C2 as stated: the Save Gate is reached, and content returned, only
\* if an Insert change was resolved Accept.
C2_OnlyAcceptedInsert == SaveGateOrContent => Accepted("Insert")

\* C2 amended: the Save Gate is reached, and content returned, only if an
\* Insert change was resolved Accept or a Delete change was resolved
\* Reject.
C2_InsertAcceptedOrDeleteRejected ==
    SaveGateOrContent => (Accepted("Insert") \/ Rejected("Delete"))

C2_Witness ==
    /\ mode = "read"
    /\ pc = "save"
    /\ ~Accepted("Insert")
    /\ Rejected("Delete")

\* C3: comparing identical contents (two empty texts included) returns
\* None at once: no hint line, no rendering, no cursor move, no prompt,
\* no write; the loop goes on to the next other path.
C3_IdenticalReturnsUnchanged ==
    [][(pc = "compare" /\ mode = "read" /\ original_content = other_content)
         => /\ pc' = "other"
            /\ oi' = oi + 1
            /\ content' = None
            /\ status' = status
            /\ row' = row
            /\ shown' = shown
            /\ decisions' = decisions
            /\ fs' = fs]_vars

\* Identical files were compared and the "Compare with" line is still the
\* last line on the terminal.
C3_Witness ==
    /\ mode = "read"
    /\ pc = "other"
    /\ oi = 2
    /\ status = Some(StatusRow("Compare with", "x"))
    /\ fs["o"] = fs["x"]
    /\ Size(fs["o"]) > 0
    /\ row = 3

AllInsertsAcceptedDeletesRejected ==
    /\ PassOver
    /\ \A i \in 1..Len(diff) :
          /\ diff[i].tag = "Insert" => decisions[i].accept
          /\ diff[i].tag = "Delete" => ~decisions[i].accept

\* C4: with every Insert accepted and every Delete rejected the
\* ResultBuffer is the other file's content, the Save Gate is put, and a
\* confirmed save returns that content.
C4_AcceptInsertsGivesOther ==
    AllInsertsAcceptedDeletesRejected =>
        /\ resulting_content = other_content
        /\ changed
        /\ pc = "write_back" => content = Some(other_content)

C4_Witness ==
    /\ AllInsertsAcceptedDeletesRejected
    /\ pc = "write_back"
    /\ content = Some(other_content)
    /\ \E i \in Resolved : diff[i].tag = "Insert" /\ decisions[i].how = "auto"
    /\ \E i \in Resolved : diff[i].tag = "Delete"

\* C5: after a block key (d or f) on a change of tag T, every following
\* change of tag T is resolved without a key and gets the same decision,
\* as long as only changes of tag T have followed.
C5_BlockDecisionSticks ==
    \A i \in Resolved : \A j \in Resolved :
        (/\ i < j
         /\ decisions[i].how = "block"
         /\ \A k \in i..j : diff[k].tag = diff[i].tag)
        => /\ decisions[j].how = "auto"
           /\ decisions[j].accept = decisions[i].accept

C5_Witness ==
    \E i \in Resolved :
        /\ i + 2 \in Resolved
        /\ decisions[i].how = "block"
        /\ ~decisions[i].accept
        /\ diff[i].tag = "Delete"
        /\ diff[i + 1].tag = "Delete"
        /\ diff[i + 2].tag = "Delete"
        /\ decisions[i + 2].how = "auto"

\* C6 as stated: a changed line that follows a change of a different tag
\* (Equal, Insert or Delete) is never covered by an earlier block
\* decision: a key is read for it. Stated for the sessions whose shortest
\* edit script is unique, so that no run found against it rests on the
\* diff library's choice among several scripts.
C6_DifferentTagResets ==
    (diff # <<>> /\ Cardinality(FromLines(original_content, other_content)) = 1)
    => \A j \in Resolved :
          (j > 1 /\ diff[j].tag # "Equal" /\ diff[j - 1].tag # diff[j].tag)
          => decisions[j].how \in {"key", "block"}

\* The pending change is resolved with the given decision and the loop
\* moves on to the next change.
ResolvesAs(accept, how) ==
    /\ pc' = "pass"
    /\ idx' = idx + 1
    /\ decisions' = Append(decisions, [how |-> how, accept |-> accept])
    /\ resulting_content' =
          IF accept THEN resulting_content \o <<diff[idx].value>>
                    ELSE resulting_content

\* C7: one key at a decision prompt: a/A accepts, s/S rejects, neither
\* sticky; d/D accepts and f/F rejects, sticky for the tag of the change;
\* any other key leaves the prompt and the whole state as they are.
C7_DecisionProtocol ==
    [][\A c \in Keys :
          ReadAcceptKey(c) =>
            CASE c \in {"a", "A"} -> ResolvesAs(TRUE, "key") /\ automatic' = None
              [] c \in {"s", "S"} -> ResolvesAs(FALSE, "key") /\ automatic' = None
              [] c \in {"d", "D"} ->
                   /\ ResolvesAs(TRUE, "block")
                   /\ automatic' = Some(<<diff[idx].tag, TRUE>>)
              [] c \in {"f", "F"} ->
                   /\ ResolvesAs(FALSE, "block")
                   /\ automatic' = Some(<<diff[idx].tag, FALSE>>)
              [] OTHER ->
                   /\ pc' = "accept"
                   /\ dropped' = TRUE
                   /\ UNCHANGED <<resulting_content, changed, automatic, idx,
                                  decisions, shown, row, fs>>]_vars

\* All four recognized answers were given in one session, the first by an
\* upper or lower case d on a Delete line.
C7_Witness ==
    /\ Len(decisions) = 4
    /\ decisions[1] = [how |-> "block", accept |-> TRUE]
    /\ decisions[2] = [how |-> "key", accept |-> FALSE]
    /\ decisions[3] = [how |-> "block", accept |-> FALSE]
    /\ decisions[4] = [how |-> "key", accept |-> TRUE]

\* C8: one key at the save question: s/S returns true (the caller goes on
\* to write), d/D returns false (the caller goes on to the next path), any
\* other key leaves the question pending; the key itself writes nothing.
C8_SaveGate ==
    [][\A c \in Keys :
          ReadSaveKey(c) =>
            /\ fs' = fs
            /\ CASE c \in {"s", "S"} -> pc' = "write_back" /\ oi' = oi
                 [] c \in {"d", "D"} -> pc' = "other" /\ oi' = oi + 1
                 [] OTHER ->
                      /\ pc' = "save"
                      /\ dropped' = TRUE
                      /\ UNCHANGED <<oi, content, resulting_content, row>>]_vars

\* The save question of write mode was answered save.
C8_Witness ==
    /\ mode = "write"
    /\ pc = "write_back"
    /\ status = Some(SaveHint)

\* C9: in read mode the disk changes only in the fs::write that follows a
\* session whose pass is over and whose save question was answered save;
\* only the original file changes, and a write that succeeds leaves it
\* equal to the session's ResultBuffer.
C9_ReadModeWrites ==
    [][mode = "read" =>
         /\ pc' = "write_back" => (pc = "save" /\ \E c \in {"s", "S"} : ReadSaveKey(c))
         /\ fs' # fs =>
              /\ pc = "write_back"
              /\ PassOver
              /\ changed
              /\ content = Some(resulting_content)
              /\ \A p \in Files \ {Current.original_file} : fs'[p] = fs[p]
              /\ pc' # "error" => fs'[Current.original_file] = Some(resulting_content)
         /\ (pc = "write_back" /\ pc' # "error") =>
              fs'[Current.original_file] = Some(resulting_content)]_vars

\* A saved session has replaced the original file: the disk no longer
\* holds the content the entry started from.
C9_Witness ==
    /\ mode = "read"
    /\ pc = "other"
    /\ oi = 2
    /\ fs["o"] # Some(original_content)
    /\ fs["o"] # fs["x"]
    /\ Size(fs["o"]) > 0

\* C10: write mode asks the save question exactly when the contents
\* differ, skips identical content without prompt or write, writes only
\* after the answer save and then only the other file, which a successful
\* write leaves equal to the original content; the original file is never
\* written and no merge session runs.
C10_WriteMode ==
    [][mode = "write" =>
         /\ pc \notin {"pass", "accept"}
         /\ diff = <<>>
         /\ pc = "compare" =>
              /\ (pc' = "save") = (original_content # other_content)
              /\ original_content = other_content =>
                   (pc' = "other" /\ status' = status /\ row' = row /\ fs' = fs)
         /\ pc' = "write_back" => (pc = "save" /\ \E c \in {"s", "S"} : ReadSaveKey(c))
         /\ pc = "save" => original_content # other_content
         /\ fs' # fs =>
              /\ pc = "write_back"
              /\ other_file # Current.original_file
              /\ \A p \in Files \ {other_file} : fs'[p] = fs[p]
         /\ (pc = "write_back" /\ pc' # "error") =>
              fs'[other_file] = Some(original_content)
         /\ pc \in {"other", "compare", "save", "write_back"} =>
              fs'[Current.original_file] = Some(original_content)]_vars

\* The other file differed, the question was put and answered save, and
\* the file now holds the original content.
C10_Witness ==
    /\ mode = "write"
    /\ pc = "other"
    /\ oi = 2
    /\ status = Some(SaveHint)
    /\ fs["x"] = Some(original_content)
    /\ fs["o"] = Some(original_content)
    /\ Size(fs["o"]) > 0

\* The other path under the cursor of the loop cannot be used: it does
\* not expand, or no file can be read at the expanded path.
Unusable(p) ==
    \/ ShellExpand(p) = None
    \/ ShellExpand(p)[1] \notin Files
    \/ fs[ShellExpand(p)[1]] = None

\* The line reporting an unusable other path.
SkipNote(p) ==
    IF ShellExpand(p) = None
      THEN StatusRow("Invalid file name", p)
      ELSE StatusRow("Not found", ShellExpand(p)[1])

\* C11: in both modes an other path that does not expand or cannot be read
\* is reported on a line of its own and skipped: no session and no save
\* question is opened for it, no file is written, no error is raised and
\* the loop stands at the next other path of the same entry.
C11_UnusableOtherSkipped ==
    [][(pc = "other" /\ oi <= Len(Current.other_files)
          /\ Unusable(Current.other_files[oi])) =>
         /\ pc' = "other"
         /\ oi' = oi + 1
         /\ ei' = ei
         /\ status' = Some(SkipNote(Current.other_files[oi]))
         /\ row' = row + 1
         /\ fs' = fs
         /\ err' = None
         /\ content' = None
         /\ original_content' = original_content
         /\ UNCHANGED session]_vars

\* Both kinds of unusable path were skipped and the run ended without error.
C11_Witness ==
    /\ pc = "done"
    /\ err = None
    /\ config = Some(<<Entry("o", <<"$u", "~x">>)>>)
    /\ fs["x"] = None
    /\ status = Some(StatusRow("Not found", "x"))
    /\ row = 4

\* C12: a missing manifest and an unreadable original file end the whole
\* run with an error: the error state is never left, so no further entry
\* or other path is taken up, no key is read and no file is written; the
\* missing manifest is detected before any line is written or file read.
C12_FatalErrorsAbort ==
    [][/\ pc # "error"
       /\ (pc = "start" /\ config = None) =>
            /\ pc' = "error"
            /\ err' = Some(<<"ConfigurationMissing", "">>)
            /\ UNCHANGED <<fs, status, row, ei, oi, original_content,
                           other_file, other_content, content>>
            /\ UNCHANGED session
       /\ (pc = "entry" /\ ei <= Len(config[1])
             /\ fs[Current.original_file] = None) =>
            /\ pc' = "error"
            /\ err' = Some(<<"SyncFileMissing", Current.original_file>>)
            /\ UNCHANGED <<fs, ei, oi, original_content, other_file,
                           other_content, content>>
            /\ UNCHANGED session]_vars

\* The first entry was processed, the original of the second entry is
\* missing and the run has stopped there.
C12_Witness ==
    /\ pc = "error"
    /\ err = Some(<<"SyncFileMissing", "x">>)
    /\ ei = 2
    /\ fs["o"] # None
    /\ status = Some(StatusRow(IF mode = "read" THEN "Read for" ELSE "Write for", "x"))

SaveFailed == {"FailedToSaveSyncFile", "FailedToSaveConfigurationFile"}

\* C13: when a write-back fails the run stops with a save error that
\* names the path of the file whose write failed: the original file in
\* read mode, the other file in write mode.
C13_SaveErrorNamesWrittenPath ==
    (pc = "error" /\ err # None /\ err[1][1] \in SaveFailed) =>
       err[1][2] = (IF mode = "read" THEN Current.original_file ELSE other_file)

\* The text the first Len(dec) changes of d contribute: every Equal change
\* and every change resolved Accept, in order, once each.
Kept(d, dec) ==
    Selected(SubSeq(d, 1, Len(dec)),
             [i \in 1..Len(dec) |-> d[i].tag = "Equal" \/ dec[i].accept])

\* C14: the ResultBuffer of a merge session starts empty and only grows
\* at its end: the step that resolves a change appends the text of the
\* change exactly when the change is Equal or was resolved Accept, Insert
\* and Delete alike, and no other step of the session touches the buffer;
\* so after every step the buffer is the text of the Equal and accepted
\* changes resolved so far, in order, each once.
C14_BufferAppendOnly ==
    [][mode = "read" =>
         /\ (pc = "compare" /\ pc' = "pass") => resulting_content' = <<>>
         /\ (pc \in {"pass", "accept"} /\ idx' = idx + 1) =>
              /\ Len(decisions') = idx
              /\ resulting_content' =
                   resulting_content \o
                     (IF diff[idx].tag = "Equal" \/ decisions'[idx].accept
                        THEN <<diff[idx].value>> ELSE <<>>)
         /\ (pc \in {"pass", "accept", "save"} /\ idx' = idx /\ diff' = diff) =>
              resulting_content' = resulting_content
         /\ diff' # <<>> => resulting_content' = Kept(diff', decisions')]_vars

\* In the middle of a session: a Delete was kept, an Insert was dropped,
\* and the next change is waiting for its key.
C14_Witness ==
    /\ mode = "read"
    /\ pc = "accept"
    /\ idx = 3
    /\ diff[1].tag = "Delete" /\ decisions[1].accept
    /\ diff[2].tag = "Insert" /\ ~decisions[2].accept
    /\ resulting_content = <<diff[1].value>>

DeleteOrEqual(d) == [i \in 1..Len(d) |-> d[i].tag \in {"Equal", "Delete"}]

\* C15: in read mode the original content is read once, at the head of
\* the entry, and stays the same in memory through all other paths of
\* the entry: every session of the entry is a diff of that content, also
\* when an earlier session of the entry has replaced the file on disk.
C15_OriginalLoadedOnce ==
    [][mode = "read" =>
         /\ (pc = "entry" /\ pc' = "other") =>
              Some(original_content') = fs[Current.original_file]
         /\ (pc \notin {"start", "entry"} /\ pc' # "entry") =>
              original_content' = original_content
         /\ (pc = "compare" /\ pc' = "pass") =>
              Selected(diff', DeleteOrEqual(diff')) = original_content]_vars

\* The second session of an entry is under way; the first one was saved,
\* so the file on disk no longer holds the content the session diffs.
C15_Witness ==
    /\ mode = "read"
    /\ pc = "accept"
    /\ oi = 2
    /\ fs[Current.original_file] # Some(original_content)
    /\ Selected(diff, DeleteOrEqual(diff)) = original_content

\* Change i is the first changed line of the session.
FirstNonEqual(i) ==
    /\ diff[i].tag # "Equal"
    /\ \A k \in 1..(i - 1) : diff[k].tag = "Equal"

\* C16: the slot of the block decision is empty when a merge session
\* starts, whatever earlier sessions of the run decided, so the first
\* changed line of every session is resolved by a key and never
\* automatically.
C16_FirstChangePrompted ==
    (mode = "read" /\ diff # <<>>) =>
       /\ (\A k \in 1..Len(decisions) : diff[k].tag = "Equal") => automatic = None
       /\ \A i \in Resolved :
            FirstNonEqual(i) => decisions[i].how \in {"key", "block"}

\* The second session of an entry, after a first session that was saved:
\* its first changed line was resolved by a block key, the second one
\* automatically.
C16_Witness ==
    /\ mode = "read"
    /\ oi = 2
    /\ fs[Current.original_file] # Some(original_content)
    /\ pc = "pass"
    /\ Len(decisions) = 2
    /\ FirstNonEqual(1)
    /\ decisions[1].how = "block"
    /\ decisions[2].how = "auto"

\* How the row of change i looks while the second loop stands at idx.
Look(i) ==
    IF i < idx /\ diff[i].tag # "Equal"
      THEN (IF decisions[i].accept THEN "" ELSE "dim")
      ELSE IF i = idx /\ pc = "accept" THEN "bold" ELSE ""

\* C17: the preview takes one row per change; after it the cursor is
\* moved up by the number of changes and then down by one for every
\* change that is finished, so while change idx is redrawn or waits for
\* its key the cursor is on the row where change idx was previewed, every
\* redraw has landed on the row of its own change, and at the end of the
\* pass the cursor is on the row directly below the last preview row.
C17_CursorOnPreviewRow ==
    (mode = "read" /\ diff # <<>> /\ pc \in {"pass", "accept"}) =>
       /\ row = top + idx - 1
       /\ idx \in 1..(Len(diff) + 1)
       /\ Len(shown) = Len(diff)
       /\ \A i \in 1..Len(diff) : shown[i] = SegRow(diff[i], Look(i))

\* Three changes: the first was rejected, the second is Equal, the third
\* is waiting for its key on the third row of the preview.
C17_Witness ==
    /\ mode = "read"
    /\ pc = "accept"
    /\ idx = 3
    /\ Len(diff) = 3
    /\ diff[2].tag = "Equal"
    /\ row = top + 2
    /\ shown[1][3] = "dim"
    /\ shown[3][3] = "bold"

\* A merge session is running: second loop, or save question.
InSession == mode = "read" /\ pc \in {"pass", "accept", "save"}

\* C18: when every prompt eventually gets a recognized key, every merge
\* session ends.  It ends only after every change was resolved, one after
\* the other in order; a recognized key at a changed line resolves that
\* line and no other, a recognized key at the save question ends the
\* session; a key that is not recognized leaves the session at the same
\* change (or at the save question) and writes nothing.
C18_SessionTerminates ==
    /\ InSession ~> ~InSession
    /\ [][InSession =>
            /\ (InSession' /\ idx' # idx) =>
                 (pc' = "pass" /\ idx' = idx + 1 /\ Len(decisions') = idx)
            /\ (pc = "accept" /\ pc' # "accept") =>
                 (idx' = idx + 1 /\ diff[idx].tag # "Equal"
                    /\ decisions'[idx].how \in {"key", "block"})
            /\ (pc = "pass" /\ idx' = idx + 1) =>
                 decisions'[idx].how \in {"equal", "auto"}
            /\ (pc \in {"accept", "save"} /\ pc' = pc) =>
                 (fs' = fs /\ UNCHANGED <<diff, idx, resulting_content, changed,
                                          automatic, decisions, content>>)
            /\ (pc = "save" /\ pc' # "save") => pc' \in {"write_back", "other"}
            /\ ~InSession' =>
                 (idx > Len(diff) /\ Len(decisions) = Len(diff)
                    /\ pc' \in {"write_back", "other"})]_vars

\* A session is blocked at a changed line after a key that was ignored.
C18_Witness ==
    /\ mode = "read"
    /\ pc = "accept"
    /\ dropped
    /\ idx = 2
    /\ Len(diff) = 3
    /\ decisions[1].how = "key"

\* C19: when the interactive pass ends with changed still false, every
\* Insert change was rejected and every Delete change was accepted, and
\* the ResultBuffer is the original text, line for line.
C19_UnchangedIsOriginal ==
    (PassOver /\ ~changed) =>
       /\ \A i \in 1..Len(diff) :
            /\ diff[i].tag = "Insert" => ~decisions[i].accept
            /\ diff[i].tag = "Delete" => decisions[i].accept
       /\ resulting_content = original_content

\* A pass over Insert and Delete changes has ended without a change.
C19_Witness ==
    /\ PassOver
    /\ ~changed
    /\ pc = "pass"
    /\ Rejected("Insert")
    /\ Accepted("Delete")
    /\ Len(original_content) = 2

\* C20: in read mode, between the sessions of an entry and after its last
\* other path, the original file on disk holds the ResultBuffer of the
\* last session of the entry that was saved, or what it held at the head
\* of the entry when none was: a later saved session replaces what an
\* earlier one wrote.
C20_LastSavedWins ==
    (mode = "read" /\ pc = "other") =>
       fs[Current.original_file] =
          Some(IF saved = <<>> THEN original_content ELSE saved[Len(saved)])

\* All other paths of the entry are done and two sessions were saved: the
\* first kept both lines of the other file, the second only the last
\* one; the line kept by the first session alone is not in the file.
C20_Witness ==
    /\ mode = "read"
    /\ pc = "other"
    /\ oi > Len(Current.other_files)
    /\ saved = <<(<<"a", "b">>), (<<"b">>)>>
    /\ fs[Current.original_file] = Some(<<"b">>)

====
